---- MODULE Spec2Model ----
(***************************************************************************)
(* A model of src/algorithms.py: the REINFORCE trainers of the cut         *)
(* selection policy.                                                       *)
(*                                                                         *)
(*   ReinforceBaselineAlg   __init__, _process_data, train, save_checkpoint*)
(*   HRLReinforceAlg        __init__, train_highlevel_policy,              *)
(*                          _update_highlevel_dataset, _train_highlevel    *)
(*                                                                         *)
(* Five specifications share the module's variables:                       *)
(*   SpecPartition  the mini-batch index arithmetic of train and           *)
(*                  _train_highlevel, for every N and B up to the bounds;  *)
(*   SpecAgg        _process_data over episode results whose four lists    *)
(*                  have any lengths;                                      *)
(*   SpecTrain      construction and a sequence of low-level train calls,  *)
(*                  one step of the code per action;                       *)
(*   Spec           a sequence of train_highlevel_policy calls;            *)
(*   SpecHRL        low-level train calls and train_highlevel_policy calls *)
(*                  on one HRLReinforceAlg trainer, in any order.          *)
(*                                                                         *)
(* Numbers the code holds as floats are exact rationals <<num, den>> here, *)
(* in lowest terms with den > 0.  Reward normalisation (normalize_reward), *)
(* which needs a square root, is modelled disabled.                        *)
(***************************************************************************)
EXTENDS Integers, Sequences, FiniteSets, TLC

VARIABLES
    \* ---- the trainer object (ReinforceBaselineAlg fields)
    cfg,                     \* constructor arguments
    constructed,             \* "new" | "ok" | "failed": outcome of __init__
    critic_exp_mvg_avg,      \* [has, val]: has is FALSE when the attribute does not exist
    policy_steps,            \* policy_optimizer.step() calls so far
    value_steps,             \* value_optimizer.step() calls so far
    lr_steps,                \* policy_lr_scheduler.step() calls so far
    mean_std_updates,        \* mean_std.update() calls so far
    checkpoints,             \* logger.save_itr_params calls: sequence of blobs
    \* ---- the trainer object (HRLReinforceAlg fields)
    train_highlevel_epoch,
    training_highlevel_dataset,
    critic_exp_mvg_avg_high_level,
    hl_steps,                \* cutsel_percent_policy_optimizer.step() calls so far
    hl_lr_steps,             \* cutsel_percent_policy_lr_scheduler.step() calls so far
    \* ---- one train call: position and locals
    pc,
    ncalls,                  \* train calls begun so far
    loc,                     \* the locals of the running (or last) train call
    \* ---- one train_highlevel_policy call: what the last call did
    hl_ncalls,
    hl_call,
    hl_in_step,              \* so far the k-th call carried epoch k
    hl_completed,            \* train_highlevel_policy calls that updated and returned
    \* ---- the pure-function specifications
    part,
    agg

trainerVars == <<cfg, constructed, critic_exp_mvg_avg, policy_steps, value_steps,
                 lr_steps, mean_std_updates, checkpoints>>
hrlVars     == <<train_highlevel_epoch, training_highlevel_dataset,
                 critic_exp_mvg_avg_high_level, hl_steps, hl_lr_steps>>
callVars    == <<pc, ncalls, loc>>
hlCallVars  == <<hl_ncalls, hl_call, hl_in_step, hl_completed>>
vars == <<cfg, constructed, critic_exp_mvg_avg, policy_steps, value_steps,
          lr_steps, mean_std_updates, checkpoints,
          train_highlevel_epoch, training_highlevel_dataset,
          critic_exp_mvg_avg_high_level, hl_steps, hl_lr_steps,
          pc, ncalls, loc, hl_ncalls, hl_call, hl_in_step, hl_completed, part, agg>>

-----------------------------------------------------------------------------
(* Bounds of the model.                                                    *)
MaxN          == 100    \* SpecPartition: samples in a batch
MaxB          == 32     \* SpecPartition: mini-batch size
MaxAggLen     == 1      \* SpecAgg: length of each list of an episode
MaxTrainCalls == 2      \* SpecTrain: train calls on one trainer
MaxEpoch      == 2      \* SpecTrain: the epoch argument ranges over 0..MaxEpoch
MaxHLCalls    == 5      \* Spec: train_highlevel_policy calls on one trainer
MaxHLEpoch    == 5      \* Spec: the epoch argument ranges over 0..MaxHLEpoch
MaxHRLCalls   == 3      \* SpecHRL: train_highlevel_policy calls on one trainer
MaxHRLEpoch   == 1      \* SpecHRL: the epoch argument ranges over 0..MaxHRLEpoch

-----------------------------------------------------------------------------
(* Exact arithmetic.                                                       *)
Abs(x) == IF x < 0 THEN -x ELSE x

RECURSIVE GCD(_, _)
GCD(a, b) == IF b = 0 THEN a ELSE GCD(b, a % b)

\* The rational n/d (d # 0) in lowest terms with a positive denominator.
Rat(n, d) ==
    LET g == GCD(Abs(n), Abs(d))
        s == IF d < 0 THEN -1 ELSE 1
    IN  <<(s * n) \div g, (s * d) \div g>>

RAdd(x, y) == Rat(x[1] * y[2] + y[1] * x[2], x[2] * y[2])
RSub(x, y) == Rat(x[1] * y[2] - y[1] * x[2], x[2] * y[2])
RMul(x, y) == Rat(x[1] * y[1], x[2] * y[2])
RInt(n)    == <<n, 1>>

RECURSIVE SumSeq(_)
SumSeq(s) == IF s = <<>> THEN 0 ELSE Head(s) + SumSeq(Tail(s))

RECURSIVE Concat(_)
Concat(ss) == IF ss = <<>> THEN <<>> ELSE Head(ss) \o Concat(Tail(ss))

\* numpy's a[lo:] and a[lo:hi] on a list or on the rows of a column vector,
\* with 0-based bounds; out-of-range bounds are clipped, as Python clips them.
Slice(s, lo, hi) ==
    LET h == IF hi > Len(s) THEN Len(s) ELSE hi
    IN  IF lo >= h THEN <<>> ELSE [k \in 1..(h - lo) |-> s[lo + k]]
SliceFrom(s, lo) == Slice(s, lo, Len(s))

-----------------------------------------------------------------------------
(* Mini-batch partition: train lines 226-232, 240-244, 256, 279-282, and   *)
(* the same lines of _train_highlevel (476-482, 489-493, 500, 518-521).    *)

\* A train_loop that takes the "+ 1" branch also when B divides N.
TrainLoopNoExactBranch(N, B) ==
    IF N < B THEN 1 ELSE (N \div B) + 1

\* total_num_samples, batch_size -> train_loop
TrainLoop(N, B) ==
    IF N < B THEN 1
    ELSE IF N % B = 0 THEN N \div B
    ELSE (N \div B) + 1

\* The size of mini-batch i (0-based) of a list of N states.
BatchSize(i, trainLoop, N, B) ==
    IF i = trainLoop - 1
    THEN (IF N - i * B > 0 THEN N - i * B ELSE 0)     \* len(states[i*B:])
    ELSE B

\* cur_index of step j (0-based) of mini-batch i.
CurIndex(i, j, B) == i * B + j

\* The sample indices mini-batch i reads, in the order of its inner loop.
BatchIndices(i, trainLoop, N, B) ==
    [k \in 1..BatchSize(i, trainLoop, N, B) |-> CurIndex(i, k - 1, B)]

\* The rows of neg_rewards (R rows) that mini-batch i slices out.
RewardRows(i, trainLoop, R, B) ==
    LET rows == [k \in 1..R |-> k - 1]
    IN  IF i = trainLoop - 1 THEN SliceFrom(rows, i * B)
        ELSE Slice(rows, i * B, (i + 1) * B)

-----------------------------------------------------------------------------
(* Episode results.  One element of raw_results is the tuple              *)
(* (episode_info, low_level_dataset, high_level_dataset): result[0],       *)
(* result[1] and result[2] of the code.                                    *)
(*                                                                         *)
(* A low-level state stands for a feature matrix together with what the   *)
(* two networks answer on it: lp is the summed log-probability             *)
(* pointer_net.logprobs gives the recorded action on that state, value is *)
(* value_net(state); normalized tells whether _normalize_state made it.   *)

RewardScale == 1        \* reward_scale, the constructor's default

Episode(info, low, high) == [info |-> info, low |-> low, high |-> high]

NoLow  == [state |-> <<>>, action |-> <<>>, sel_cuts_num |-> <<>>, neg_reward |-> <<>>]
NoHigh == [state |-> <<>>, action |-> <<>>, neg_reward |-> <<>>]

\* A well-formed low-level episode: one sample per reward.
LowEpisode(rewards, lps) ==
    Episode([solving_time |-> <<SumSeq(rewards)>>],
            [state        |-> [k \in 1..Len(rewards) |-> [lp |-> lps[k], value |-> k, normalized |-> FALSE]],
             action       |-> [k \in 1..Len(rewards) |-> <<k - 1>>],
             sel_cuts_num |-> [k \in 1..Len(rewards) |-> 1],
             neg_reward   |-> rewards],
            NoHigh)

\* A well-formed high-level episode: one (state, action, neg_reward) per reward.
\* lp is the log-probability cutsel_percent_policy.log_prob gives the recorded
\* action on that state.
HighEpisode(tag, rewards, lps) ==
    Episode([solving_time |-> <<SumSeq(rewards)>>],
            NoLow,
            [state      |-> [k \in 1..Len(rewards) |->
                                [tag |-> tag, k |-> k, lp |-> lps[k]]],
             action     |-> [k \in 1..Len(rewards) |-> k],
             neg_reward |-> rewards])

-----------------------------------------------------------------------------
(* Trajectory aggregation: _process_data, lines 170-212.                   *)

\* self._normalize_state(state): the state, marked as normalised.
NormalizeState(state) == [state EXCEPT !.normalized = TRUE]

\* _process_data(raw_results) of a trainer whose self.normalize is `normalize`.
\* raised: np.vstack of an empty list raises ValueError (line 185, and line 202
\* when normalising); mean_std_calls: the calls of self.mean_std.update made.
ProcessData(raw_results, normalize) ==
    LET states == Concat([e \in 1..Len(raw_results) |-> raw_results[e].low.state])
        actions == Concat([e \in 1..Len(raw_results) |-> raw_results[e].low.action])
        nums == Concat([e \in 1..Len(raw_results) |-> raw_results[e].low.sel_cuts_num])
        rewards == Concat([e \in 1..Len(raw_results) |-> raw_results[e].low.neg_reward])
        noRewards == rewards = <<>>
        noStates  == ~noRewards /\ normalize /\ states = <<>>
        bad == noRewards \/ noStates
    IN  [raised         |-> bad,
         mean_std_calls |-> IF normalize /\ ~bad THEN 1 ELSE 0,
         neg_rewards    |-> IF bad THEN <<>>
                            ELSE [k \in 1..Len(rewards) |-> RewardScale * rewards[k]],
         states         |-> IF bad THEN <<>>
                            ELSE IF normalize
                            THEN [k \in 1..Len(states) |-> NormalizeState(states[k])]
                            ELSE states,
         actions        |-> IF bad THEN <<>> ELSE actions,
         sel_cuts_nums  |-> IF bad THEN <<>> ELSE nums,
         env_step_infos |-> IF bad THEN <<>>
                            ELSE Concat([e \in 1..Len(raw_results) |->
                                            raw_results[e].info.solving_time])]

-----------------------------------------------------------------------------
(* Construction: ReinforceBaselineAlg.__init__ (lines 22-112) and          *)
(* HRLReinforceAlg.__init__ (lines 371-415).                               *)

CriticBetaNum == 9      \* critic_beta = 0.9 = CriticBetaNum / CriticBetaDen
CriticBetaDen == 10
CriticBeta == Rat(CriticBetaNum, CriticBetaDen)

\* The optimizer classes torch.optim has: eval('optim.' + name) raises
\* AttributeError for any other name (line 74).
OptimNames == {"Adam", "SGD", "RMSprop", "Adagrad", "AdamW"}

BaselineTypes == {"no_baseline", "simple", "net"}

Unset == [has |-> FALSE, val |-> RInt(0)]
Value(x) == [has |-> TRUE, val |-> x]

\* Whether __init__ runs to its end with these arguments.  Only the optimizer
\* name is looked up (lines 73-80); baseline_type is stored unchecked (line 82).
InitSucceeds(c) == c.optimizer_class \in OptimNames

\* self.critic_exp_mvg_avg after __init__: lines 84-92 create it only for 'simple'.
InitCriticExpMvgAvg(c) ==
    IF c.baseline_type = "simple" THEN Value(RInt(0)) ELSE Unset

-----------------------------------------------------------------------------
(* The exponential-moving-average baseline: train lines 234-238 and        *)
(* _train_highlevel lines 484-487.                                         *)

BatchMean(neg_rewards) == Rat(SumSeq(neg_rewards), Len(neg_rewards))

\* ema * beta + (1 - beta) * mean
Blend(ema, mean) ==
    RAdd(RMul(ema, CriticBeta), RMul(RSub(RInt(1), CriticBeta), mean))

\* An update that blends also at epoch 1.
EmaUpdateAlwaysBlend(ema, epoch, nthCall, neg_rewards) ==
    Blend(ema, BatchMean(neg_rewards))

\* Lines 235-238: the new self.critic_exp_mvg_avg.  The code tests the epoch
\* argument; nthCall (the number of this train call) is not read.
EmaUpdate(ema, epoch, nthCall, neg_rewards) ==
    IF epoch = 1 THEN BatchMean(neg_rewards)
    ELSE Blend(ema, BatchMean(neg_rewards))

-----------------------------------------------------------------------------
(* The log-probability clamp of the low-level loop: lines 264-268.         *)

LogprobThreshold == -4000

\* A clamp that also detaches at the threshold itself.
ClampAtThreshold(logprob) ==
    [val |-> logprob, attached |-> ~(logprob <= LogprobThreshold),
     warned |-> logprob <= LogprobThreshold]

\* logprobs[j,:] for a sample whose logprob.item() is `logprob`: the value is
\* stored either way; attached tells whether gradient flows through it; warned
\* whether logger.log wrote the warning.
Clamp(logprob) ==
    IF logprob < LogprobThreshold
    THEN [val |-> logprob, attached |-> FALSE, warned |-> TRUE]
    ELSE [val |-> logprob, attached |-> TRUE, warned |-> FALSE]

-----------------------------------------------------------------------------
(* One low-level train call, ReinforceBaselineAlg.train (lines 221-341),   *)
(* a step of the code per action.  pc is the position:                     *)
(*   "idle"      no call has begun                                         *)
(*   "baseline"  _process_data returned, train_loop is computed (222-232)  *)
(*   "loop"      before mini-batch loc.i (240)                             *)
(*   "lr"        the loop is over (308)                                    *)
(*   "save"      before save_checkpoint (313)                              *)
(*   "log"       before the end-of-epoch statistics (315)                  *)
(*   "returned"  the call returned                                         *)
(*   "raised"    the call raised; loc.raise_at says where                  *)

NoLocals ==
    [epoch |-> 0, neg_rewards |-> <<>>, states |-> <<>>, actions |-> <<>>,
     sel_cuts_nums |-> <<>>, env_step_infos |-> <<>>,
     total_num_samples |-> 0, train_loop |-> 0, i |-> 0,
     batches |-> <<>>, logprobs |-> <<>>, warnings |-> 0,
     neg_advantage |-> <<>>, reinforce_loss |-> Unset,
     raise_at |-> "", stats |-> {},
     \* the trainer as the call found it
     ema0 |-> Unset, ckpt0 |-> 0, policy0 |-> 0, value0 |-> 0, lr0 |-> 0,
     mean_std0 |-> 0]

\* The per-sample baseline of a mini-batch (lines 284-289): the scalar EMA for
\* 'simple', nothing for 'no_baseline', value_net(state) for 'net'.
Baselines(baseline_type, ema, states) ==
    [k \in 1..Len(states) |->
        IF baseline_type = "simple" THEN ema
        ELSE IF baseline_type = "net" THEN RInt(states[k].value)
        ELSE RInt(0)]

\* neg_advantage = minibatch_neg_rewards - baseline, row by row.
NegAdvantage(rewards, baselines) ==
    [k \in 1..Len(rewards) |-> RSub(RInt(rewards[k]), baselines[k])]

\* reinforce_loss = (neg_advantage * logprobs).mean() (line 291), every entry of
\* the logprobs vector counted.  The baselines of one mini-batch share their
\* denominator q, so the sum is taken over q.
ReinforceLoss(rewards, baselines, entries) ==
    LET q == baselines[1][2]
        term(k) == (rewards[k] * q - baselines[k][1] * (q \div baselines[k][2]))
                       * entries[k].val
    IN  Rat(SumSeq([k \in 1..Len(entries) |-> term(k)]), q * Len(entries))

\* The state blob of save_checkpoint (lines 144-152; HRLReinforceAlg's
\* override, lines 445-456, adds the high-level policy).
CheckpointBlob(c, epoch) ==
    [epoch |-> epoch,
     keys  |-> {"pointer_net"}
               \cup (IF c.hrl THEN {"cutsel_percent_net"} ELSE {})
               \cup (IF c.normalize THEN {"mean", "std", "epsilon"} ELSE {})]

\* __init__: lines 22-112.
Construct ==
    /\ constructed = "new"
    /\ constructed' = IF InitSucceeds(cfg) THEN "ok" ELSE "failed"
    /\ critic_exp_mvg_avg' = IF InitSucceeds(cfg) THEN InitCriticExpMvgAvg(cfg)
                             ELSE Unset
    /\ UNCHANGED <<cfg, policy_steps, value_steps, lr_steps, mean_std_updates,
                   checkpoints>>
    /\ UNCHANGED <<hrlVars, callVars, hlCallVars, part, agg>>

\* Lines 222-232: the call begins, aggregates and computes train_loop.
TrainBegin(raw_results, epoch) ==
    /\ constructed = "ok"
    /\ pc \in {"idle", "returned", "raised"}
    /\ ncalls < MaxTrainCalls
    /\ LET d == ProcessData(raw_results, cfg.normalize)
           n == Len(d.states)
       IN  /\ mean_std_updates' = mean_std_updates + d.mean_std_calls
           /\ pc' = IF d.raised THEN "raised" ELSE "baseline"
           /\ loc' = [NoLocals EXCEPT
                        !.epoch = epoch,
                        !.neg_rewards = d.neg_rewards,
                        !.states = d.states,
                        !.actions = d.actions,
                        !.sel_cuts_nums = d.sel_cuts_nums,
                        !.env_step_infos = d.env_step_infos,
                        !.total_num_samples = n,
                        !.train_loop = IF d.raised THEN 0
                                       ELSE TrainLoop(n, cfg.batch_size),
                        !.raise_at = IF d.raised THEN "aggregate" ELSE "",
                        !.ema0 = critic_exp_mvg_avg,
                        !.ckpt0 = Len(checkpoints),
                        !.policy0 = policy_steps,
                        !.value0 = value_steps,
                        !.lr0 = lr_steps,
                        !.mean_std0 = mean_std_updates]
    /\ ncalls' = ncalls + 1
    /\ UNCHANGED <<cfg, constructed, critic_exp_mvg_avg, policy_steps, value_steps,
                   lr_steps, checkpoints>>
    /\ UNCHANGED <<hrlVars, hlCallVars, part, agg>>

\* Lines 234-238: the EMA baseline is updated, for 'simple' only.
TrainBaseline ==
    /\ pc = "baseline"
    /\ critic_exp_mvg_avg' =
          IF cfg.baseline_type = "simple"
          THEN Value(EmaUpdate(critic_exp_mvg_avg.val, loc.epoch, ncalls,
                               loc.neg_rewards))
          ELSE critic_exp_mvg_avg
    /\ pc' = "loop"
    /\ UNCHANGED <<cfg, constructed, policy_steps, value_steps, lr_steps,
                   mean_std_updates, checkpoints, ncalls, loc>>
    /\ UNCHANGED <<hrlVars, hlCallVars, part, agg>>

\* Lines 240-307: mini-batch loc.i, from the log-probabilities to the optimizer
\* steps.  With a baseline_type that is none of the three, neg_advantage is
\* never bound and line 291 raises UnboundLocalError.
TrainMiniBatch ==
    /\ pc = "loop"
    /\ LET B       == cfg.batch_size
           idx     == BatchIndices(loc.i, loc.train_loop, loc.total_num_samples, B)
           sts     == [k \in 1..Len(idx) |-> loc.states[idx[k] + 1]]
           entries == [k \in 1..Len(idx) |-> Clamp(sts[k].lp)]
           rows    == RewardRows(loc.i, loc.train_loop, Len(loc.neg_rewards), B)
           rewards == [k \in 1..Len(rows) |-> loc.neg_rewards[rows[k] + 1]]
           known   == cfg.baseline_type \in BaselineTypes
           base    == Baselines(cfg.baseline_type, critic_exp_mvg_avg.val, sts)
           warned  == Cardinality({k \in 1..Len(entries) : entries[k].warned})
           batch   == [idx |-> idx, rows |-> rows]
       IN  IF known
           THEN /\ loc' = [loc EXCEPT
                             !.logprobs = entries,
                             !.warnings = @ + warned,
                             !.batches = Append(@, batch),
                             !.neg_advantage = NegAdvantage(rewards, base),
                             !.reinforce_loss =
                                 Value(ReinforceLoss(rewards, base, entries)),
                             !.i = @ + 1]
                /\ policy_steps' = policy_steps + 1
                /\ value_steps' = IF cfg.baseline_type = "net"
                                  THEN value_steps + 1 ELSE value_steps
                /\ pc' = IF loc.i + 1 = loc.train_loop THEN "lr" ELSE "loop"
           ELSE /\ loc' = [loc EXCEPT
                             !.logprobs = entries,
                             !.warnings = @ + warned,
                             !.batches = Append(@, batch),
                             !.raise_at = "advantage"]
                /\ pc' = "raised"
                /\ UNCHANGED <<policy_steps, value_steps>>
    /\ UNCHANGED <<cfg, constructed, critic_exp_mvg_avg, lr_steps,
                   mean_std_updates, checkpoints, ncalls>>
    /\ UNCHANGED <<hrlVars, hlCallVars, part, agg>>

\* A collaborator (pointer_net.logprobs, backward, the optimizer) raises inside
\* mini-batch loc.i; nothing in train catches it.
TrainMiniBatchRaises ==
    /\ pc = "loop"
    /\ pc' = "raised"
    /\ loc' = [loc EXCEPT !.raise_at = "loop"]
    /\ UNCHANGED <<trainerVars, ncalls>>
    /\ UNCHANGED <<hrlVars, hlCallVars, part, agg>>

\* Lines 308-311: the learning-rate scheduler steps when lr_decay is set.
TrainLrUpdate ==
    /\ pc = "lr"
    /\ lr_steps' = IF cfg.lr_decay THEN lr_steps + 1 ELSE lr_steps
    /\ pc' = "save"
    /\ UNCHANGED <<cfg, constructed, critic_exp_mvg_avg, policy_steps, value_steps,
                   mean_std_updates, checkpoints, ncalls, loc>>
    /\ UNCHANGED <<hrlVars, hlCallVars, part, agg>>

\* A save_checkpoint call indented into the mini-batch loop: it also runs
\* between two mini-batches.
TrainSaveCheckpointInLoop ==
    /\ pc \in {"save", "loop"}
    /\ checkpoints' = Append(checkpoints, CheckpointBlob(cfg, loc.epoch))
    /\ pc' = IF pc = "save" THEN "log" ELSE pc
    /\ UNCHANGED <<cfg, constructed, critic_exp_mvg_avg, policy_steps, value_steps,
                   lr_steps, mean_std_updates, ncalls, loc>>
    /\ UNCHANGED <<hrlVars, hlCallVars, part, agg>>

\* Line 313: self.save_checkpoint(epoch).
TrainSaveCheckpoint ==
    /\ pc = "save"
    /\ checkpoints' = Append(checkpoints, CheckpointBlob(cfg, loc.epoch))
    /\ pc' = "log"
    /\ UNCHANGED <<cfg, constructed, critic_exp_mvg_avg, policy_steps, value_steps,
                   lr_steps, mean_std_updates, ncalls, loc>>
    /\ UNCHANGED <<hrlVars, hlCallVars, part, agg>>

StatsBeforeCritic ==
    {"Epoch", "training/Neg Reward", "training/Neg Advantage",
     "training/logprobs", "training/reinforce loss"}
StatsAfterCritic ==
    {"training/Critic Value", "training/len cuts", "training/sel cuts num",
     "training/solving_time"}

\* Lines 315-341: the end-of-epoch statistics.  Line 323 reads
\* self.critic_exp_mvg_avg, an attribute only 'simple' creates: without it the
\* read raises AttributeError.
TrainLogStats ==
    /\ pc = "log"
    /\ IF critic_exp_mvg_avg.has
       THEN /\ pc' = "returned"
            /\ loc' = [loc EXCEPT !.stats =
                          StatsBeforeCritic \cup StatsAfterCritic
                          \cup (IF cfg.baseline_type = "net"
                                THEN {"training/Critic Loss"} ELSE {})]
       ELSE /\ pc' = "raised"
            /\ loc' = [loc EXCEPT !.stats = StatsBeforeCritic,
                                  !.raise_at = "stats"]
    /\ UNCHANGED <<trainerVars, ncalls>>
    /\ UNCHANGED <<hrlVars, hlCallVars, part, agg>>

-----------------------------------------------------------------------------
(* The high-level trainer: train_highlevel_policy (418-430),               *)
(* _update_highlevel_dataset (432-443), _train_highlevel (458-557).  One   *)
(* call is one action.                                                     *)

EmptyDataset == [states |-> <<>>, actions |-> <<>>, neg_rewards |-> <<>>]

\* A cadence test that fires one epoch late.
FiresOneLate(epoch, freq) == epoch % freq = 1 % freq

\* Line 420: epoch % self.train_highlevel_policy_freq == 0.
Fires(epoch, freq) == epoch % freq = 0

\* An update that extends the buffer it finds instead of emptying it first.
UpdateHighlevelDatasetAppends(dataset, raw_results) ==
    [states      |-> dataset.states
                     \o Concat([e \in 1..Len(raw_results) |-> raw_results[e].high.state]),
     actions     |-> dataset.actions
                     \o Concat([e \in 1..Len(raw_results) |-> raw_results[e].high.action]),
     neg_rewards |-> dataset.neg_rewards
                     \o Concat([e \in 1..Len(raw_results) |->
                                   raw_results[e].high.neg_reward])]

\* _update_highlevel_dataset on a trainer whose buffer is `dataset`: the buffer
\* is emptied (434-438), then extended with result[2] of every episode, in
\* order (439-443).
UpdateHighlevelDataset(dataset, raw_results) ==
    [states      |-> Concat([e \in 1..Len(raw_results) |-> raw_results[e].high.state]),
     actions     |-> Concat([e \in 1..Len(raw_results) |-> raw_results[e].high.action]),
     neg_rewards |-> Concat([e \in 1..Len(raw_results) |->
                                raw_results[e].high.neg_reward])]

\* A call that stores its data in the buffer also when it does not fire.
DatasetAfterCallKeepsLatest(fires, raw_results, dataset) ==
    IF fires THEN EmptyDataset ELSE UpdateHighlevelDataset(dataset, raw_results)

\* self.training_highlevel_dataset when train_highlevel_policy returns: emptied
\* after an update (425-429), not touched otherwise.
DatasetAfterCall(fires, raw_results, dataset) ==
    IF fires THEN EmptyDataset ELSE dataset

\* A high-level EMA that blends on every update, the first included.
HighLevelEmaUpdateAlwaysBlend(ema, highlevel_epoch, neg_rewards) ==
    Blend(ema, BatchMean(neg_rewards))

\* Lines 484-487: the new self.critic_exp_mvg_avg_high_level.
HighLevelEmaUpdate(ema, highlevel_epoch, neg_rewards) ==
    IF highlevel_epoch = 1 THEN BatchMean(neg_rewards)
    ELSE Blend(ema, BatchMean(neg_rewards))

\* The log-probability clamp of the high-level loop: lines 505-510.
HighLevelLogprobThreshold == -100000

HighLevelClamp(logprob) ==
    IF logprob < HighLevelLogprobThreshold
    THEN [val |-> logprob, attached |-> FALSE, warned |-> TRUE]
    ELSE [val |-> logprob, attached |-> TRUE, warned |-> FALSE]

HighLevelStats ==
    {"training_highlevel_policy/Neg Reward", "training_highlevel_policy/Neg Advantage",
     "training_highlevel_policy/logprobs", "training_highlevel_policy/cut_percent_actions",
     "training_highlevel_policy/reinforce loss", "training_highlevel_policy/Critic Value"}

\* _train_highlevel over the buffer `dataset`: what it reads and what it changes.
\*   raised     np.vstack of an empty list raises ValueError (line 462)
\*   samples    the (state, action, reward) triples the mini-batch loops read,
\*              in the order they read them (489-521)
\*   logprobs   what the loops store in logprobs for each sample read (505-510)
\*   train_loop the number of optimizer steps (534)
TrainHighlevel(dataset, c, ema, highlevel_epoch) ==
    LET states  == dataset.states
        rewards == [k \in 1..Len(dataset.neg_rewards) |->
                        RewardScale * dataset.neg_rewards[k]]
        N  == Len(states)
        B  == c.train_highlevel_batch_size
        tl == TrainLoop(N, B)
        one(i) ==
            LET idx  == BatchIndices(i, tl, N, B)
                rows == RewardRows(i, tl, Len(rewards), B)
            IN  [k \in 1..Len(idx) |->
                    [state      |-> states[idx[k] + 1],
                     action     |-> dataset.actions[idx[k] + 1],
                     neg_reward |-> rewards[rows[k] + 1]]]
    IN  IF rewards = <<>>
        THEN [raised |-> TRUE, samples |-> <<>>, logprobs |-> <<>>,
              train_loop |-> 0, ema |-> ema,
              mean_std_calls |-> 0, lr_calls |-> 0, stats |-> {}]
        ELSE [raised |-> FALSE,
              samples |-> Concat([i \in 1..tl |-> one(i - 1)]),
              logprobs |-> Concat([i \in 1..tl |->
                              [k \in 1..Len(one(i - 1)) |->
                                  HighLevelClamp(one(i - 1)[k].state.lp)]]),
              train_loop |-> tl,
              ema |-> HighLevelEmaUpdate(ema, highlevel_epoch, rewards),
              mean_std_calls |-> IF c.normalize THEN 1 ELSE 0,
              lr_calls |-> IF c.lr_decay THEN 1 ELSE 0,
              stats |-> HighLevelStats]

\* The trainer's high-level fields, as a train_highlevel_policy call finds them.
HighLevelFields ==
    [train_highlevel_epoch |-> train_highlevel_epoch,
     critic_exp_mvg_avg_high_level |-> critic_exp_mvg_avg_high_level,
     hl_steps |-> hl_steps, hl_lr_steps |-> hl_lr_steps,
     training_highlevel_dataset |-> training_highlevel_dataset]

NoHLCall ==
    [epoch |-> 0, fired |-> FALSE, raised |-> FALSE, stats |-> {},
     raw_results |-> <<>>, samples |-> <<>>, logprobs |-> <<>>, train_loop |-> 0,
     before |-> [train_highlevel_epoch |-> 1,
                 critic_exp_mvg_avg_high_level |-> RInt(0),
                 hl_steps |-> 0, hl_lr_steps |-> 0,
                 training_highlevel_dataset |-> EmptyDataset]]

\* train_highlevel_policy(raw_results, epoch).
TrainHighlevelPolicy(raw_results, epoch) ==
    /\ constructed = "ok"
    /\ cfg.hrl
    /\ pc \in {"idle", "returned", "raised"}
    /\ hl_ncalls < MaxHLCalls
    /\ LET fires == Fires(epoch, cfg.train_highlevel_policy_freq)
           data  == UpdateHighlevelDataset(training_highlevel_dataset, raw_results)
           t     == TrainHighlevel(data, cfg, critic_exp_mvg_avg_high_level,
                                   train_highlevel_epoch)
       IN  IF fires
           THEN /\ training_highlevel_dataset' =
                      IF t.raised THEN data
                      ELSE DatasetAfterCall(TRUE, raw_results, data)
                /\ train_highlevel_epoch' =
                      IF t.raised THEN train_highlevel_epoch
                      ELSE train_highlevel_epoch + 1
                /\ critic_exp_mvg_avg_high_level' = t.ema
                /\ hl_steps' = hl_steps + t.train_loop
                /\ hl_lr_steps' = hl_lr_steps + t.lr_calls
                /\ mean_std_updates' = mean_std_updates + t.mean_std_calls
                /\ hl_completed' = IF t.raised THEN hl_completed ELSE hl_completed + 1
                /\ hl_call' = [epoch |-> epoch, fired |-> TRUE, raised |-> t.raised,
                               stats |-> t.stats, raw_results |-> raw_results,
                               samples |-> t.samples, logprobs |-> t.logprobs,
                               train_loop |-> t.train_loop,
                               before |-> HighLevelFields]
           ELSE /\ training_highlevel_dataset' =
                      DatasetAfterCall(FALSE, raw_results, training_highlevel_dataset)
                /\ hl_call' = [epoch |-> epoch, fired |-> FALSE, raised |-> FALSE,
                               stats |-> {}, raw_results |-> raw_results,
                               samples |-> <<>>, logprobs |-> <<>>,
                               train_loop |-> 0,
                               before |-> HighLevelFields]
                /\ UNCHANGED <<train_highlevel_epoch, critic_exp_mvg_avg_high_level,
                               hl_steps, hl_lr_steps, mean_std_updates, hl_completed>>
    /\ hl_ncalls' = hl_ncalls + 1
    /\ hl_in_step' = (hl_in_step /\ epoch = hl_ncalls + 1)
    /\ UNCHANGED <<cfg, constructed, critic_exp_mvg_avg, policy_steps, value_steps,
                   lr_steps, checkpoints>>
    /\ UNCHANGED <<callVars, part, agg>>

\* train_highlevel_policy(raw_results, epoch) at a firing epoch, when a
\* collaborator (cutsel_percent_policy.log_prob, backward, the optimizer) raises
\* inside the first mini-batch of _train_highlevel: the buffer holds the call's
\* data, the EMA (484-487) and the normalizer (464-468) are already updated,
\* lines 423-429 are not reached.
TrainHighlevelPolicyRaises(raw_results, epoch) ==
    /\ constructed = "ok"
    /\ cfg.hrl
    /\ pc \in {"idle", "returned", "raised"}
    /\ hl_ncalls < MaxHLCalls
    /\ Fires(epoch, cfg.train_highlevel_policy_freq)
    /\ LET data == UpdateHighlevelDataset(training_highlevel_dataset, raw_results)
           t    == TrainHighlevel(data, cfg, critic_exp_mvg_avg_high_level,
                                  train_highlevel_epoch)
       IN  /\ training_highlevel_dataset' = data
           /\ critic_exp_mvg_avg_high_level' = t.ema
           /\ mean_std_updates' = mean_std_updates + t.mean_std_calls
           /\ hl_call' = [epoch |-> epoch, fired |-> TRUE, raised |-> TRUE,
                          stats |-> {}, raw_results |-> raw_results,
                          samples |-> <<>>, logprobs |-> <<>>, train_loop |-> 0,
                          before |-> HighLevelFields]
    /\ hl_ncalls' = hl_ncalls + 1
    /\ hl_in_step' = (hl_in_step /\ epoch = hl_ncalls + 1)
    /\ UNCHANGED <<train_highlevel_epoch, hl_steps, hl_lr_steps, hl_completed>>
    /\ UNCHANGED <<cfg, constructed, critic_exp_mvg_avg, policy_steps, value_steps,
                   lr_steps, checkpoints>>
    /\ UNCHANGED <<callVars, part, agg>>

-----------------------------------------------------------------------------
(* The mini-batch loop alone, on N samples with batch size B: the indices  *)
(* and reward rows each iteration reads.                                   *)

NoPart == [phase |-> "off", N |-> 0, B |-> 0, train_loop |-> 0, i |-> 0,
           batches |-> <<>>]

\* Lines 226-232 (476-482): train_loop is computed.
PartitionBegin ==
    /\ part.phase = "input"
    /\ part' = [part EXCEPT !.phase = "loop",
                            !.train_loop = TrainLoop(part.N, part.B)]
    /\ UNCHANGED <<trainerVars, hrlVars, callVars, hlCallVars, agg>>

\* One iteration of `for i in range(train_loop)`: lines 241-244, 250-256 and
\* 279-282 (490-493, 497-500 and 518-521).
PartitionMiniBatch ==
    /\ part.phase = "loop"
    /\ part.i < part.train_loop
    /\ part' = [part EXCEPT
                  !.batches = Append(@,
                      [idx  |-> BatchIndices(part.i, part.train_loop, part.N, part.B),
                       rows |-> RewardRows(part.i, part.train_loop, part.N, part.B)]),
                  !.i = @ + 1]
    /\ UNCHANGED <<trainerVars, hrlVars, callVars, hlCallVars, agg>>

\* The loop ends when i reaches train_loop.
PartitionEnd ==
    /\ part.phase = "loop"
    /\ part.i >= part.train_loop
    /\ part' = [part EXCEPT !.phase = "done"]
    /\ UNCHANGED <<trainerVars, hrlVars, callVars, hlCallVars, agg>>

-----------------------------------------------------------------------------
(* _process_data alone, on episode results whose lists have any lengths.   *)

NoAgg == [phase |-> "off", raw_results |-> <<>>,
          out |-> ProcessData(<<>>, FALSE)]

\* Episode e with a state list of ls entries, an action list of la, a
\* sel_cuts_num list of ln and a neg_reward list of lr.
AggEpisode(e, ls, la, ln, lr) ==
    Episode([solving_time |-> <<e>>],
            [state        |-> [k \in 1..ls |->
                                 [lp |-> -(10 * e + k), value |-> 0,
                                  normalized |-> FALSE]],
             action       |-> [k \in 1..la |-> <<10 * e + k>>],
             sel_cuts_num |-> [k \in 1..ln |-> 10 * e + k],
             neg_reward   |-> [k \in 1..lr |-> 10 * e + k]],
            NoHigh)

\* One or two episode results, each list of 0..MaxAggLen entries.
AggLengths == (0..MaxAggLen) \X (0..MaxAggLen) \X (0..MaxAggLen) \X (0..MaxAggLen)

AggInputs ==
    UNION {{[e \in 1..n |-> AggEpisode(e, l[e][1], l[e][2], l[e][3], l[e][4])] :
               l \in [1..n -> AggLengths]} : n \in {1, 2}}

\* self._process_data(raw_results), the whole call.
AggProcessData ==
    /\ agg.phase = "input"
    /\ LET d == ProcessData(agg.raw_results, cfg.normalize)
       IN  /\ agg' = [agg EXCEPT !.phase = "done", !.out = d]
           /\ mean_std_updates' = mean_std_updates + d.mean_std_calls
    /\ UNCHANGED <<cfg, constructed, critic_exp_mvg_avg, policy_steps, value_steps,
                   lr_steps, checkpoints>>
    /\ UNCHANGED <<hrlVars, callVars, hlCallVars, part>>

-----------------------------------------------------------------------------
(* Configurations and inputs.                                              *)

DefaultCfg ==
    [optimizer_class |-> "Adam", baseline_type |-> "no_baseline",
     lr_decay |-> FALSE, normalize |-> FALSE, batch_size |-> 32, hrl |-> FALSE,
     train_highlevel_policy_freq |-> 1, train_highlevel_batch_size |-> 32]

\* The constructor arguments SpecTrain draws from: "Adma" is no optimizer of
\* torch.optim, "ema" is no baseline type.
TrainConfigs ==
    {[DefaultCfg EXCEPT !.optimizer_class = o, !.baseline_type = b,
                        !.lr_decay = l, !.normalize = nh[1], !.hrl = nh[2],
                        !.batch_size = 2] :
        o \in {"Adam", "Adma"}, b \in BaselineTypes \cup {"ema"},
        l \in BOOLEAN, nh \in {<<FALSE, FALSE>>, <<TRUE, FALSE>>, <<FALSE, TRUE>>}}

\* The batches SpecTrain draws from: rewards [1,2,3] and [4,5,6] of the spec's
\* example, a single sample, and four samples in two episodes.
TrainInputs ==
    { <<LowEpisode(<<1, 2>>, <<-5000, -3000>>), LowEpisode(<<3>>, <<-4000>>)>>,
      <<LowEpisode(<<4, 5, 6>>, <<-3000, -4001, -3000>>)>>,
      <<LowEpisode(<<-2>>, <<-5000>>)>>,
      <<LowEpisode(<<0, -1>>, <<-3000, -3000>>), LowEpisode(<<>>, <<>>),
        LowEpisode(<<-3, 2>>, <<-4000, -5000>>)>> }

\* The constructor arguments Spec draws from.
HLConfigs ==
    {[DefaultCfg EXCEPT !.hrl = TRUE, !.baseline_type = "simple",
                        !.lr_decay = ln[1], !.normalize = ln[2],
                        !.train_highlevel_policy_freq = f,
                        !.train_highlevel_batch_size = 2] :
        ln \in {<<FALSE, FALSE>>, <<TRUE, TRUE>>}, f \in {2, 5}}

\* The batches Spec draws from.
HLInputs ==
    { <<HighEpisode("a", <<1>>, <<-5000>>)>>,
      <<HighEpisode("b", <<2, 4>>, <<-3000, -100001>>), HighEpisode("c", <<>>, <<>>),
        HighEpisode("d", <<-9>>, <<-100000>>)>> }

-----------------------------------------------------------------------------
(* The specifications.                                                     *)

\* The trainer before __init__ has run.
TrainerNew(c) ==
    /\ cfg = c
    /\ constructed = "new"
    /\ critic_exp_mvg_avg = Unset
    /\ policy_steps = 0 /\ value_steps = 0 /\ lr_steps = 0
    /\ mean_std_updates = 0
    /\ checkpoints = <<>>
    /\ train_highlevel_epoch = 1
    /\ training_highlevel_dataset = EmptyDataset
    /\ critic_exp_mvg_avg_high_level = RInt(0)
    /\ hl_steps = 0 /\ hl_lr_steps = 0
    /\ pc = "idle" /\ ncalls = 0 /\ loc = NoLocals
    /\ hl_ncalls = 0 /\ hl_call = NoHLCall /\ hl_in_step = TRUE
    /\ hl_completed = 0

\* The trainer as __init__ leaves it (lines 22-112, 371-415).
TrainerConstructed(c) ==
    /\ cfg = c
    /\ constructed = "ok"
    /\ critic_exp_mvg_avg = InitCriticExpMvgAvg(c)
    /\ policy_steps = 0 /\ value_steps = 0 /\ lr_steps = 0
    /\ mean_std_updates = 0
    /\ checkpoints = <<>>
    /\ train_highlevel_epoch = 1
    /\ training_highlevel_dataset = EmptyDataset
    /\ critic_exp_mvg_avg_high_level = RInt(0)
    /\ hl_steps = 0 /\ hl_lr_steps = 0
    /\ pc = "idle" /\ ncalls = 0 /\ loc = NoLocals
    /\ hl_ncalls = 0 /\ hl_call = NoHLCall /\ hl_in_step = TRUE
    /\ hl_completed = 0

InitPartition ==
    /\ TrainerConstructed(DefaultCfg)
    /\ \E n \in 1..MaxN, b \in 1..MaxB :
          part = [NoPart EXCEPT !.phase = "input", !.N = n, !.B = b]
    /\ agg = NoAgg
NextPartition == PartitionBegin \/ PartitionMiniBatch \/ PartitionEnd
SpecPartition == InitPartition /\ [][NextPartition]_vars

InitAgg ==
    /\ \E n \in BOOLEAN : TrainerConstructed([DefaultCfg EXCEPT !.normalize = n])
    /\ part = NoPart
    /\ \E r \in AggInputs : agg = [NoAgg EXCEPT !.phase = "input", !.raw_results = r]
NextAgg == AggProcessData
SpecAgg == InitAgg /\ [][NextAgg]_vars

InitTrain ==
    /\ \E c \in TrainConfigs : TrainerNew(c)
    /\ part = NoPart
    /\ agg = NoAgg
NextTrain ==
    \/ Construct
    \/ \E r \in TrainInputs, e \in 0..MaxEpoch : TrainBegin(r, e)
    \/ TrainBaseline
    \/ TrainMiniBatch
    \/ TrainMiniBatchRaises
    \/ TrainLrUpdate
    \/ TrainSaveCheckpoint
    \/ TrainLogStats
SpecTrain == InitTrain /\ [][NextTrain]_vars

Init ==
    /\ \E c \in HLConfigs : TrainerConstructed(c)
    /\ part = NoPart
    /\ agg = NoAgg
Next ==
    \/ \E r \in HLInputs, e \in 0..MaxHLEpoch : TrainHighlevelPolicy(r, e)
    \/ \E r \in HLInputs, e \in 0..MaxHLEpoch : TrainHighlevelPolicyRaises(r, e)
Spec == Init /\ [][Next]_vars

\* One HRLReinforceAlg trainer on which low-level train calls and
\* train_highlevel_policy calls alternate in any order.
HRLConfigs ==
    {[DefaultCfg EXCEPT !.hrl = TRUE, !.baseline_type = "simple",
                        !.lr_decay = TRUE, !.batch_size = 2,
                        !.train_highlevel_policy_freq = 2,
                        !.train_highlevel_batch_size = 2]}

HRLTrainInputs ==
    { <<LowEpisode(<<3, 5>>, <<-5000, -3000>>), LowEpisode(<<-2>>, <<-4000>>)>> }

InitHRL ==
    /\ \E c \in HRLConfigs : TrainerConstructed(c)
    /\ part = NoPart
    /\ agg = NoAgg
NextHRL ==
    \/ \E r \in HRLTrainInputs, e \in 1..MaxEpoch : TrainBegin(r, e)
    \/ TrainBaseline
    \/ TrainMiniBatch
    \/ TrainLrUpdate
    \/ TrainSaveCheckpoint
    \/ TrainLogStats
    \/ \E r \in HLInputs, e \in 0..MaxHRLEpoch :
          hl_ncalls < MaxHRLCalls /\ TrainHighlevelPolicy(r, e)
    \/ \E r \in HLInputs, e \in 0..MaxHRLEpoch :
          hl_ncalls < MaxHRLCalls /\ TrainHighlevelPolicyRaises(r, e)
SpecHRL == InitHRL /\ [][NextHRL]_vars

-----------------------------------------------------------------------------
(* Claims about the mini-batch partition (SpecPartition).                  *)

BatchSizes == [k \in 1..Len(part.batches) |-> Len(part.batches[k].idx)]

\* C4: for N >= 1 samples and batch size B >= 1 the loop runs ceil(N/B) times
\* (once when N < B); every mini-batch but the last has B samples and the last
\* has N - B*(loops-1), between 1 and B; the sample indices 0..N-1 are read
\* once each, in order, and each mini-batch slices the reward rows of the very
\* indices it reads.  N=100, B=32 gives [32,32,32,4]; N=32, B=32 gives [32];
\* N=10, B=32 gives [10].
C4_Partition ==
    part.phase = "done" =>
        LET N == part.N
            B == part.B
            loops == Len(part.batches)
        IN  /\ loops = part.train_loop
            /\ (loops - 1) * B < N /\ N <= loops * B
            /\ (N < B => loops = 1)
            /\ \A k \in 1..(loops - 1) : BatchSizes[k] = B
            /\ BatchSizes[loops] = N - B * (loops - 1)
            /\ BatchSizes[loops] \in 1..B
            /\ Concat([k \in 1..loops |-> part.batches[k].idx])
                  = [k \in 1..N |-> k - 1]
            /\ \A k \in 1..loops : part.batches[k].rows = part.batches[k].idx
            /\ (N = 100 /\ B = 32 => BatchSizes = <<32, 32, 32, 4>>)
            /\ (N = 32 /\ B = 32 => BatchSizes = <<32>>)
            /\ (N = 10 /\ B = 32 => BatchSizes = <<10>>)

\* The loop over N=100, B=32 has ended with mini-batches of 32, 32, 32 and 4.
C4_Witness ==
    /\ part.phase = "done" /\ part.N = 100 /\ part.B = 32
    /\ BatchSizes = <<32, 32, 32, 4>>

-----------------------------------------------------------------------------
(* Claims about the trajectory aggregator (SpecAgg).                       *)

AggWellFormed ==
    \A e \in 1..Len(agg.raw_results) :
        LET d == agg.raw_results[e].low
        IN  /\ Len(d.state) = Len(d.action)
            /\ Len(d.state) = Len(d.sel_cuts_num)
            /\ Len(d.state) = Len(d.neg_reward)

\* C8: whatever the lengths of the per-episode lists, the batch _process_data
\* returns has as many states as actions, selection counts and reward rows;
\* when each episode's four lists have one length, that number is the sum of
\* the episode lengths and the samples are in episode order.
C8_LengthsAgree ==
    (agg.phase = "done" /\ ~agg.out.raised) =>
        /\ Len(agg.out.states) = Len(agg.out.actions)
        /\ Len(agg.out.states) = Len(agg.out.sel_cuts_nums)
        /\ Len(agg.out.states) = Len(agg.out.neg_rewards)
        /\ AggWellFormed =>
              /\ Len(agg.out.states)
                    = SumSeq([e \in 1..Len(agg.raw_results) |->
                                 Len(agg.raw_results[e].low.state)])
              /\ \A k \in 1..(Len(agg.out.neg_rewards) - 1) :
                    agg.out.neg_rewards[k] < agg.out.neg_rewards[k + 1]

-----------------------------------------------------------------------------
(* Claims about construction and the low-level train call (SpecTrain).     *)

BadConfig(c) ==
    \/ c.optimizer_class \notin OptimNames
    \/ c.baseline_type \notin {"no_baseline", "simple", "net"}

\* The EMA update of the running call has been made.
PastBaseline ==
    \/ pc \in {"loop", "lr", "save", "log", "returned"}
    \/ pc = "raised" /\ loc.raise_at \in {"loop", "advantage", "stats"}

\* C9: a trainer given an unrecognised optimizer name or a baseline_type outside
\* {no_baseline, simple, net} is never constructed, so no train call begins with
\* such a configuration and none raises for it in the middle of training.
C9_ConfigFailsAtConstruction ==
    BadConfig(cfg) =>
        /\ constructed # "ok"
        /\ ncalls = 0
        /\ ~(pc = "raised" /\ loc.raise_at = "advantage")

\* C5: with baseline 'simple' (reward_scale 1, no reward normalisation) the EMA
\* is updated once per train call, before the first mini-batch: to the batch
\* mean at epoch 1, to ema*beta + (1-beta)*mean at every later epoch.  Rewards
\* [1,2,3] at epoch 1 give 2; then rewards [4,5,6] at epoch 2 give 23/10.
C5_SimpleEma ==
    cfg.baseline_type = "simple" =>
        LET mean == Rat(SumSeq(loc.neg_rewards), Len(loc.neg_rewards))
            ema  == critic_exp_mvg_avg.val
            old  == loc.ema0.val
        IN  /\ pc = "baseline" => critic_exp_mvg_avg = loc.ema0
            /\ PastBaseline =>
                  /\ loc.epoch = 1 => ema = mean
                  /\ loc.epoch > 1 =>
                        ema = RAdd(RMul(old, <<9, 10>>), RMul(<<1, 10>>, mean))
                  /\ (loc.epoch = 1 /\ loc.neg_rewards = <<1, 2, 3>>) => ema = <<2, 1>>
                  /\ (loc.epoch = 2 /\ loc.neg_rewards = <<4, 5, 6>> /\ old = <<2, 1>>)
                        => ema = <<23, 10>>

\* The second call, at epoch 2 with rewards [4,5,6], found the EMA at 2 and
\* returned with it at 23/10.
C5_Witness ==
    /\ cfg.baseline_type = "simple" /\ pc = "returned" /\ ncalls = 2
    /\ loc.epoch = 2 /\ loc.neg_rewards = <<4, 5, 6>>
    /\ loc.ema0.val = <<2, 1>> /\ critic_exp_mvg_avg.val = <<23, 10>>

\* C6: with baseline 'simple', whatever epochs the calls carry, the EMA is set
\* to the raw batch mean on the trainer's first train call and on no later
\* call: every later call blends the previous EMA with the batch mean.
C6_EmaSetOnFirstCallOnly ==
    (cfg.baseline_type = "simple" /\ PastBaseline) =>
        LET mean == Rat(SumSeq(loc.neg_rewards), Len(loc.neg_rewards))
        IN  critic_exp_mvg_avg.val =
               IF ncalls = 1 THEN mean
               ELSE RAdd(RMul(loc.ema0.val, <<9, 10>>), RMul(<<1, 10>>, mean))

\* The samples the mini-batches run so far have read, in order.
SamplesRead ==
    Concat([k \in 1..Len(loc.batches) |->
               [j \in 1..Len(loc.batches[k].idx) |->
                   loc.states[loc.batches[k].idx[j] + 1]]])

\* C7: in every mini-batch, a sample whose log-probability is below -4000 is
\* stored detached and a warning is logged; any other sample (-4000 itself,
\* -3000) is stored attached.  Either way the value stays in the vector: the
\* loss is the mean over all entries and the logged vector holds every value.
C7_Clamp ==
    (loc.batches # <<>>) =>
        LET last == loc.batches[Len(loc.batches)]
            n    == Len(last.idx)
            lp(k) == loc.states[last.idx[k] + 1].lp
            base == IF cfg.baseline_type = "simple" THEN critic_exp_mvg_avg.val
                    ELSE <<0, 1>>
            r(k) == loc.neg_rewards[last.idx[k] + 1]
        IN  /\ Len(loc.logprobs) = n
            /\ \A k \in 1..n :
                  /\ loc.logprobs[k].val = lp(k)
                  /\ lp(k) < -4000 =>
                        ~loc.logprobs[k].attached /\ loc.logprobs[k].warned
                  /\ lp(k) >= -4000 =>
                        loc.logprobs[k].attached /\ ~loc.logprobs[k].warned
            /\ loc.warnings
                  = Cardinality({k \in 1..Len(SamplesRead) : SamplesRead[k].lp < -4000})
            /\ (loc.reinforce_loss.has /\ cfg.baseline_type \in {"simple", "no_baseline"})
                  => loc.reinforce_loss.val =
                        Rat(SumSeq([k \in 1..n |-> (r(k) * base[2] - base[1]) * lp(k)]),
                            base[2] * n)

\* A mini-batch holds a detached sample at -5000 next to an attached one at
\* -3000; one warning was logged.
C7_Witness ==
    /\ pc = "loop" /\ loc.i = 1 /\ Len(loc.logprobs) = 2
    /\ loc.logprobs[1] = [val |-> -5000, attached |-> FALSE, warned |-> TRUE]
    /\ loc.logprobs[2] = [val |-> -3000, attached |-> TRUE, warned |-> FALSE]
    /\ loc.warnings = 1
    /\ loc.reinforce_loss.has

\* Checkpoints written by the running (or last) train call.
CheckpointsThisCall == Len(checkpoints) - loc.ckpt0

\* C10: one train call writes the checkpoint at most once, exactly once when it
\* returns, and only after every mini-batch's policy step (and value step for
\* 'net') and the scheduler step; a call that raises inside the mini-batch
\* loop has written none.
C10_CheckpointAfterUpdates ==
    /\ CheckpointsThisCall \in {0, 1}
    /\ pc = "returned" => CheckpointsThisCall = 1
    /\ pc \in {"baseline", "loop", "lr", "save"} => CheckpointsThisCall = 0
    /\ (pc = "raised" /\ loc.raise_at \in {"aggregate", "loop", "advantage"})
          => CheckpointsThisCall = 0
    /\ (pc = "raised" /\ loc.raise_at = "stats") => CheckpointsThisCall = 1
    /\ CheckpointsThisCall = 1 =>
          /\ loc.i = loc.train_loop
          /\ policy_steps = loc.policy0 + loc.train_loop
          /\ value_steps = loc.value0
                           + (IF cfg.baseline_type = "net" THEN loc.train_loop ELSE 0)
          /\ lr_steps = loc.lr0 + (IF cfg.lr_decay THEN 1 ELSE 0)
          /\ checkpoints[Len(checkpoints)].epoch = loc.epoch

\* After a call that returned with its checkpoint written, a second call raised
\* inside its second mini-batch: one optimizer step made, no checkpoint written.
C10_Witness ==
    /\ ncalls = 2 /\ pc = "raised" /\ loc.raise_at = "loop"
    /\ loc.i = 1 /\ policy_steps = loc.policy0 + 1
    /\ loc.ckpt0 = 1 /\ Len(checkpoints) = 1

-----------------------------------------------------------------------------
(* Claims about train_highlevel_policy (Spec).  hl_call describes the last *)
(* call; hl_call.before holds the trainer's fields as that call found them.*)

HLUnchanged ==
    /\ train_highlevel_epoch = hl_call.before.train_highlevel_epoch
    /\ critic_exp_mvg_avg_high_level = hl_call.before.critic_exp_mvg_avg_high_level
    /\ hl_steps = hl_call.before.hl_steps
    /\ hl_lr_steps = hl_call.before.hl_lr_steps

\* One pass of _train_highlevel was made: the counter advanced by one, the
\* optimizer stepped once per mini-batch, the scheduler once if enabled.
HLOneUpdate ==
    /\ train_highlevel_epoch = hl_call.before.train_highlevel_epoch + 1
    /\ hl_call.train_loop >= 1
    /\ hl_steps = hl_call.before.hl_steps + hl_call.train_loop
    /\ hl_lr_steps = hl_call.before.hl_lr_steps + (IF cfg.lr_decay THEN 1 ELSE 0)
    /\ hl_call.stats # {}

\* The high-level samples of raw_results, episode after episode.
EpisodeSamples(raw_results) ==
    Concat([e \in 1..Len(raw_results) |->
               [k \in 1..Len(raw_results[e].high.state) |->
                   [state      |-> raw_results[e].high.state[k],
                    action     |-> raw_results[e].high.action[k],
                    neg_reward |-> raw_results[e].high.neg_reward[k]]]])

\* The buffer, as a list of samples.
BufferSamples(dataset) ==
    [k \in 1..Len(dataset.states) |->
        [state      |-> dataset.states[k],
         action     |-> dataset.actions[k],
         neg_reward |-> dataset.neg_rewards[k]]]

\* C1: a train_highlevel_policy call enters the update if and only if
\* epoch mod train_highlevel_policy_freq = 0, and performs it unless a
\* collaborator raises; a call at any other epoch returns empty statistics and
\* leaves train_highlevel_epoch, the high-level EMA and the high-level
\* optimizer and scheduler step counts as they were.
C1_Cadence ==
    hl_ncalls > 0 =>
        LET onCadence == hl_call.epoch % cfg.train_highlevel_policy_freq = 0
        IN  /\ (onCadence /\ ~hl_call.raised) => HLOneUpdate
            /\ ~onCadence => (hl_call.stats = {} /\ ~hl_call.raised /\ HLUnchanged)
            /\ hl_call.fired <=> onCadence

\* With frequency 2, a call at epoch 3 changed nothing after a call that updated.
C1_Witness ==
    /\ cfg.train_highlevel_policy_freq = 2 /\ hl_ncalls >= 2
    /\ hl_call.epoch = 3 /\ hl_call.stats = {} /\ ~hl_call.fired
    /\ train_highlevel_epoch = 2 /\ hl_steps > 0

\* C2, as claimed: with frequency 5, a call at an epoch 1..4 returns empty
\* statistics and leaves the buffer holding exactly that call's high-level
\* dataset; a call at epoch 5 performs one update and leaves the buffer empty.
C2_BufferHoldsLatestCall ==
    (cfg.train_highlevel_policy_freq = 5 /\ hl_ncalls > 0) =>
        /\ hl_call.epoch \in 1..4 =>
              /\ hl_call.stats = {}
              /\ BufferSamples(training_highlevel_dataset)
                    = EpisodeSamples(hl_call.raw_results)
        /\ (hl_call.epoch = 5 /\ ~hl_call.raised) =>
              /\ HLOneUpdate
              /\ training_highlevel_dataset = EmptyDataset

\* C2, amended: with frequency 5, a call at an epoch 1..4 returns empty
\* statistics and does not touch the buffer (the call's data is not stored in
\* it); a call at epoch 5 that returns has performed one update and left the
\* buffer empty.
C2_BufferUntouchedOffCadence ==
    (cfg.train_highlevel_policy_freq = 5 /\ hl_ncalls > 0) =>
        /\ hl_call.epoch \in 1..4 =>
              /\ hl_call.stats = {}
              /\ HLUnchanged
              /\ training_highlevel_dataset = hl_call.before.training_highlevel_dataset
        /\ (hl_call.epoch = 5 /\ ~hl_call.raised) =>
              /\ HLOneUpdate
              /\ training_highlevel_dataset = EmptyDataset

\* Calls at epochs 1, 2, 3, 4, 5 in that order: the fifth made the first update.
C2_Witness ==
    /\ cfg.train_highlevel_policy_freq = 5 /\ hl_ncalls = 5 /\ hl_in_step
    /\ hl_call.epoch = 5 /\ hl_call.fired /\ train_highlevel_epoch = 2
    /\ training_highlevel_dataset = EmptyDataset

\* C3: a call that updates runs _train_highlevel over exactly the samples of
\* its own raw_results, concatenated in episode order (nothing of an earlier
\* call), and returns with the buffer's three lists empty.
C3_UpdateUsesCurrentBatch ==
    (hl_ncalls > 0 /\ hl_call.fired /\ ~hl_call.raised) =>
        /\ hl_call.samples = EpisodeSamples(hl_call.raw_results)
        /\ training_highlevel_dataset.states = <<>>
        /\ training_highlevel_dataset.actions = <<>>
        /\ training_highlevel_dataset.neg_rewards = <<>>

\* An update found the one-sample buffer a raising call had left, ran over the
\* three samples of its own three-episode batch, and left the buffer empty.
C3_Witness ==
    /\ hl_call.fired /\ ~hl_call.raised
    /\ Len(hl_call.before.training_highlevel_dataset.states) = 1
    /\ Len(hl_call.raw_results) = 3 /\ Len(hl_call.samples) = 3
    /\ training_highlevel_dataset = EmptyDataset

-----------------------------------------------------------------------------
(* Claims about the two trainers of one HRLReinforceAlg (SpecHRL).         *)

\* The mean of the high-level rewards of raw_results, scaled (463, 485).
HighLevelBatchMean(raw_results) ==
    LET smp == EpisodeSamples(raw_results)
    IN  BatchMean([k \in 1..Len(smp) |-> RewardScale * smp[k].neg_reward])

\* What the trainer holds between calls agrees with the calls made so far.
C11_CounterAndEma ==
    /\ train_highlevel_epoch = 1 + hl_completed
    /\ (hl_ncalls > 0 /\ hl_call.fired /\ ~hl_call.raised) =>
          critic_exp_mvg_avg_high_level =
              IF hl_completed = 1
              THEN HighLevelBatchMean(hl_call.raw_results)
              ELSE Blend(hl_call.before.critic_exp_mvg_avg_high_level,
                         HighLevelBatchMean(hl_call.raw_results))

\* A step of a low-level train call leaves the high-level counter and EMA
\* alone; a train_highlevel_policy call leaves the low-level EMA alone.
C11_Separate ==
    /\ hl_ncalls' = hl_ncalls =>
          UNCHANGED <<train_highlevel_epoch, critic_exp_mvg_avg_high_level>>
    /\ hl_ncalls' # hl_ncalls => UNCHANGED critic_exp_mvg_avg

\* C11: train_highlevel_epoch starts at 1 and is 1 + the number of
\* train_highlevel_policy calls that updated and returned, whatever outer
\* epochs they carried; the first such call sets the high-level EMA to its
\* batch-mean reward and every later one blends, ema*beta + (1-beta)*mean;
\* low-level train calls change neither, and high-level calls do not change
\* the low-level EMA.
C11_HighLevelState == []C11_CounterAndEma /\ [][C11_Separate]_vars

\* After a low-level train call moved the low-level EMA, a second
\* high-level update, made at outer epoch 0, blended; then another low-level
\* call returned.
C11_Witness ==
    /\ hl_completed = 2 /\ train_highlevel_epoch = 3
    /\ hl_call.fired /\ ~hl_call.raised /\ hl_call.epoch = 0
    /\ hl_call.before.critic_exp_mvg_avg_high_level # RInt(0)
    /\ ncalls = 2 /\ pc = "returned"
    /\ critic_exp_mvg_avg.val # RInt(0)

-----------------------------------------------------------------------------
(* Claims about the clamp of the high-level loop (Spec).                   *)

\* C12: in an update, every sample's entry of logprobs is detached, with a
\* warning, exactly when its log-probability is below -4000: the decision
\* the low-level loop makes for the same log-probability.
C12_SameClamp ==
    (hl_ncalls > 0 /\ hl_call.fired /\ ~hl_call.raised) =>
        /\ Len(hl_call.logprobs) = Len(hl_call.samples)
        /\ \A k \in 1..Len(hl_call.samples) :
              LET lp == hl_call.samples[k].state.lp
              IN  /\ hl_call.logprobs[k] = Clamp(lp)
                  /\ hl_call.logprobs[k].attached = ~(lp < LogprobThreshold)
                  /\ hl_call.logprobs[k].warned = (lp < LogprobThreshold)

-----------------------------------------------------------------------------
(* Claims about the end of a train call (SpecTrain).                       *)

\* C13: with baseline_type no_baseline, simple or net, a train call on a
\* non-empty, well-formed batch does not raise once its checkpoint is
\* written: it emits every end-of-epoch statistic, 'training/Critic Value'
\* included, and returns.
C13_TrainCompletes ==
    (constructed = "ok" /\ cfg.baseline_type \in BaselineTypes) =>
        /\ pc = "raised" => (loc.raise_at # "stats" /\ CheckpointsThisCall = 0)
        /\ pc = "returned" =>
              (StatsBeforeCritic \cup StatsAfterCritic) \subseteq loc.stats

====
